---- MODULE Spec2Model ----
(***************************************************************************)
(* A model of the reverse-geocoding program: src/reverse-geocoding.py (the *)
(* variant with the lock-guarded timing counters) and src/main.py (the     *)
(* variant without timing).  One asyncio event loop runs the main          *)
(* coroutine and one task per coordinate record; every action below is one *)
(* run of a coroutine between two suspension points.                       *)
(***************************************************************************)
EXTENDS Integers, Sequences, FiniteSets, TLC

(* ------------------------------ bounds -------------------------------- *)
\* Largest number of features in the input FeatureCollection.
MaxN == 2
\* Largest value of the wall clock time.time().
MaxTime == 1

(* ------------------------- values of the model ------------------------ *)
\* The two programs of the repository.
Variants == {"main", "timing"}

\* The display names the geocoding service can answer with.
Names == {"123 Main St", "456 Oak Ave"}

\* The HTTP statuses the service can answer with (one 2xx, one non-2xx).
Statuses == {200, 500}

\* Features of the input: geometry.coordinates = [longitude, latitude] and
\* properties.Label.
Features ==
    { [geometry |-> [coordinates |-> <<-7, 12>>], properties |-> [Label |-> "A"]],
      [geometry |-> [coordinates |-> <<12, -7>>], properties |-> [Label |-> "B"]] }

SeqsUpTo(S, n) == UNION { [1..k -> S] : k \in 0..n }

\* What the input path can hold: nothing, text that is not JSON, or a
\* FeatureCollection.
InputFiles ==
    { [kind |-> "missing"], [kind |-> "garbage"] }
      \cup { [kind |-> "doc", doc |-> [features |-> fs]] : fs \in SeqsUpTo(Features, MaxN) }

(* ---------------------------- pure functions --------------------------- *)
BuildingCoord(longitude, latitude, label) ==
    [longitude |-> longitude, latitude |-> latitude, label |-> label]

BuildingInfo(longitude, latitude, street_address, label) ==
    [longitude |-> longitude, latitude |-> latitude,
     street_address |-> street_address, label |-> label]

\* The fields of a BuildingInfo namedtuple in the order of its definition:
\* the order csv.writer writes them in.
InfoFields(b) == <<b.longitude, b.latitude, b.street_address, b.label>>

get_coords(doc) ==
    [k \in 1..Len(doc.features) |->
        BuildingCoord(doc.features[k].geometry.coordinates[1],
                      doc.features[k].geometry.coordinates[2],
                      doc.features[k].properties.Label)]

\* str() of a number: an optional sign and the decimal digits.
DigitChar == <<"0", "1", "2", "3", "4", "5", "6", "7", "8", "9">>

RECURSIVE Digits(_)
Digits(n) == IF n < 10 THEN <<DigitChar[n + 1]>>
             ELSE Append(Digits(n \div 10), DigitChar[(n % 10) + 1])

str(n) == IF n < 0 THEN <<"-">> \o Digits(0 - n) ELSE Digits(n)

\* The query parameters of the GET issued for a coordinate record.
RequestParams(coord) ==
    [lat |-> str(coord.latitude), lon |-> str(coord.longitude),
     format |-> "json", zoom |-> 18]

\* The header row written to the output CSV.
CsvHeader == <<"Latitude", "Longitude", "Street Address", "Label">>

\* writer.writerow of one BuildingInfo: its fields in the order of the
\* tuple, the two numbers as str() gives them, the two strings as they are.
CsvRow(b) ==
    LET f == InfoFields(b) IN <<str(f[1]), str(f[2]), f[3], f[4]>>

\* The file after writer.writerow(header); writer.writerows(buildings).
CsvDocument(buildings) ==
    <<CsvHeader>> \o [k \in 1..Len(buildings) |-> CsvRow(buildings[k])]

\* The counter after an assignment that drops what it held.
AddElapsedOverwriting(total, d) == d

\* cumulative_lookup_time += d.
AddElapsed(total, d) == total + d

\* A gather that hands the results back in the order the children finished.
GatherAsCompleted(rs, order) == [k \in 1..Len(order) |-> rs[order[k]]]

\* asyncio.gather(*tasks): the results of the children by position.
GatherResults(rs, order) == [k \in 1..Len(rs) |-> rs[k]]

\* Lookups made once per distinct coordinate record: a repeated record is
\* left to the lookup of its first occurrence.
LookupsOfDistinct(cs) ==
    { i \in 1..Len(cs) : \A j \in 1..(i - 1) : cs[j] # cs[i] }

\* tasks = [get_address(session, coord) for coord in coords]: one lookup
\* per record, by position.
LookupsOf(cs) == 1..Len(cs)

\* The addresses kept one per building, repeats included.
AddressesWithRepeats(buildings) ==
    { <<k, buildings[k].street_address>> : k \in 1..Len(buildings) }

\* set([building.street_address for building in buildings])
UniqueAddresses(buildings) == { buildings[k].street_address : k \in 1..Len(buildings) }

(* ------------------------------- state -------------------------------- *)
VARIABLES
    variant,                 \* which program runs
    input_file,              \* what the input path holds
    main_pc,                 \* where the main coroutine is
    exit_code,               \* the exit status of the process
    coords,                  \* main's coords
    buildings,               \* main's buildings
    session,                 \* the aiohttp.ClientSession of get_addresses
    task_pc,                 \* per lookup task: where get_address is
    started,                 \* per lookup task: its local started
    elapsed,                 \* per lookup task: time.time() - started
    request,                 \* per lookup task: the GET it issued
    body,                    \* per lookup task: its local body, the parsed JSON
    task_result,             \* per lookup task: the BuildingInfo it returned
    finished,                \* the lookup tasks in the order they finished
    now,                     \* time.time()
    batch_started,           \* main's local started
    cumulative_lookup_time,
    cumulative_lookup_lock,  \* 0 when free, else the task holding it
    total_lookup_time,
    output_file,             \* the output path: unopened, or the rows written
    log                      \* the log records, in order

vars == <<variant, input_file, main_pc, exit_code, coords, buildings, session,
          task_pc, started, elapsed, request, body, task_result, finished,
          now, batch_started, cumulative_lookup_time, cumulative_lookup_lock,
          total_lookup_time, output_file, log>>

main_vars == <<main_pc, exit_code, coords, buildings, session, batch_started,
               total_lookup_time, output_file, log>>

task_vars == <<task_pc, started, elapsed, request, body, task_result, finished>>

\* The number of coordinate records, and the lookup tasks that exist.
N == Len(coords)
Tasks == DOMAIN task_pc

NoRequest == [kind |-> "none"]
NoBody == [kind |-> "none"]
NoResult == [kind |-> "none"]
\* The output path: not opened yet, refused by open() with OSError, or
\* written with the rows of the CSV.
Unopened == [state |-> "unopened", rows |-> <<>>]
Refused == [state |-> "refused", rows |-> <<>>]
Written(rows) == [state |-> "written", rows |-> rows]

\* Everything the service or the network can do to one request.
Bodies ==
    { [kind |-> "garbage"], [kind |-> "json", fields |-> [error |-> "Unable to geocode"]] }
      \cup { [kind |-> "json", fields |-> [display_name |-> nm]] : nm \in Names }

Outcomes ==
    { [kind |-> "connection_error"] }
      \cup { [kind |-> "http", status |-> s, body |-> b] : s \in Statuses, b \in Bodies }

Init ==
    /\ variant \in Variants
    /\ input_file \in InputFiles
    /\ main_pc = "open_input"
    /\ exit_code = 0
    /\ coords = <<>>
    /\ buildings = <<>>
    /\ session = "none"
    /\ task_pc = <<>>
    /\ started = <<>>
    /\ elapsed = <<>>
    /\ request = <<>>
    /\ body = <<>>
    /\ task_result = <<>>
    /\ finished = <<>>
    /\ now = 0
    /\ batch_started = 0
    /\ cumulative_lookup_time = 0
    /\ cumulative_lookup_lock = 0
    /\ total_lookup_time = 0
    /\ output_file = Unopened
    /\ log = <<>>


(* ------------------------- a single lookup ---------------------------- *)
\* A session.get that also raises on an error status, as raise_for_status
\* would make it.
GetRaisesForStatus(outcome) ==
    \/ outcome.kind = "connection_error"
    \/ outcome.kind = "http" /\ outcome.status >= 400

\* Whether session.get raises instead of handing back a response: it does
\* when no response arrives; the status of a response is not looked at.
GetRaises(outcome) == outcome.kind = "connection_error"

\* Whether response.json() raises on a body.
JsonRaises(payload) == payload.kind # "json"

\* Whether body["display_name"] raises KeyError.
LacksDisplayName(parsed) == "display_name" \notin DOMAIN parsed.fields

\* A record built with the address and the label in each other's place.
ResolvedRecordSwapped(coord, parsed) ==
    BuildingInfo(coord.longitude, coord.latitude, coord.label, parsed.fields.display_name)

\* The record get_address returns for a coordinate and a parsed body.
ResolvedRecord(coord, parsed) ==
    BuildingInfo(coord.longitude, coord.latitude, parsed.fields.display_name, coord.label)

\* The event loop runs the lookup tasks while the main coroutine waits in
\* gather.
LoopRuns == main_pc = "gather"

\* The end of a lookup: it returned a record or raised.  Its locals are
\* gone with its frame.
Finish(i, raised, parsed) ==
    /\ task_pc' = [task_pc EXCEPT ![i] = IF raised THEN "failed" ELSE "done"]
    /\ task_result' = [task_result EXCEPT
                          ![i] = IF raised THEN NoResult ELSE ResolvedRecord(coords[i], parsed)]
    /\ finished' = Append(finished, i)
    /\ started' = [started EXCEPT ![i] = 0]
    /\ body' = [body EXCEPT ![i] = NoBody]

\* get_address up to its first suspension: started = time.time() and the GET.
StartLookup(i) ==
    /\ LoopRuns
    /\ task_pc[i] = "created"
    /\ task_pc' = [task_pc EXCEPT ![i] = "requesting"]
    /\ started' = [started EXCEPT ![i] = IF variant = "timing" THEN now ELSE @]
    /\ request' = [request EXCEPT ![i] = RequestParams(coords[i])]
    /\ UNCHANGED <<variant, input_file, main_vars, elapsed, body, task_result,
                   finished, now, cumulative_lookup_time, cumulative_lookup_lock>>

\* The service (or the network) answers the GET of lookup i: session.get
\* returns the response or raises, and body = await response.json() parses
\* it or raises.  In main.py the record is built right after, inside the
\* same block; in reverse-geocoding.py the lookup goes on to the lock.
\* The event loop polls the network only when no callback is ready to run:
\* every task gather has made runs up to its GET before any answer is seen.
ReceiveResponse(i, outcome) ==
    /\ LoopRuns
    /\ task_pc[i] = "requesting"
    /\ \A j \in Tasks : task_pc[j] # "created"
    /\ IF GetRaises(outcome)
       THEN Finish(i, TRUE, NoBody)
       ELSE IF JsonRaises(outcome.body)
            THEN Finish(i, TRUE, NoBody)
            ELSE IF variant = "main"
                 THEN Finish(i, LacksDisplayName(outcome.body), outcome.body)
                 ELSE /\ task_pc' = [task_pc EXCEPT ![i] = "wait_lock"]
                      /\ body' = [body EXCEPT ![i] = outcome.body]
                      /\ UNCHANGED <<started, task_result, finished>>
    /\ UNCHANGED <<variant, input_file, main_vars, elapsed, request,
                   now, cumulative_lookup_time, cumulative_lookup_lock>>

\* An acquire that does not look whether the lock is held.
AcquireLockUnguarded(i) ==
    /\ LoopRuns
    /\ task_pc[i] = "wait_lock"
    /\ cumulative_lookup_lock' = i
    /\ task_pc' = [task_pc EXCEPT ![i] = "locked"]
    /\ UNCHANGED <<variant, input_file, main_vars, started, elapsed, request,
                   body, task_result, finished, now, cumulative_lookup_time>>

\* async with cumulative_lookup_lock: the lock is taken when it is free.
AcquireLock(i) ==
    /\ LoopRuns
    /\ task_pc[i] = "wait_lock"
    /\ cumulative_lookup_lock = 0
    /\ cumulative_lookup_lock' = i
    /\ task_pc' = [task_pc EXCEPT ![i] = "locked"]
    /\ UNCHANGED <<variant, input_file, main_vars, started, elapsed, request,
                   body, task_result, finished, now, cumulative_lookup_time>>

\* A lookup that returns a record with an empty address where the body has
\* no display_name.
UpdateAndReturnDefaulting(i) ==
    /\ LoopRuns
    /\ task_pc[i] = "locked"
    /\ elapsed' = [elapsed EXCEPT ![i] = now - started[i]]
    /\ cumulative_lookup_time' = AddElapsed(cumulative_lookup_time, now - started[i])
    /\ cumulative_lookup_lock' = 0
    /\ IF LacksDisplayName(body[i])
       THEN Finish(i, FALSE, [kind |-> "json", fields |-> [display_name |-> ""]])
       ELSE Finish(i, FALSE, body[i])
    /\ UNCHANGED <<variant, input_file, main_vars, request, now>>

\* An update that leaves the block without releasing the lock.
UpdateAndReturnKeepingLock(i) ==
    /\ LoopRuns
    /\ task_pc[i] = "locked"
    /\ elapsed' = [elapsed EXCEPT ![i] = now - started[i]]
    /\ cumulative_lookup_time' = AddElapsed(cumulative_lookup_time, now - started[i])
    /\ cumulative_lookup_lock' = cumulative_lookup_lock
    /\ Finish(i, LacksDisplayName(body[i]), body[i])
    /\ UNCHANGED <<variant, input_file, main_vars, request, now>>

\* cumulative_lookup_time += time.time() - started, the release of the lock
\* and the return of the record, with no suspension in between.
UpdateAndReturn(i) ==
    /\ LoopRuns
    /\ task_pc[i] = "locked"
    /\ elapsed' = [elapsed EXCEPT ![i] = now - started[i]]
    /\ cumulative_lookup_time' = AddElapsed(cumulative_lookup_time, now - started[i])
    /\ cumulative_lookup_lock' = 0
    /\ Finish(i, LacksDisplayName(body[i]), body[i])
    /\ UNCHANGED <<variant, input_file, main_vars, request, now>>

(* --------------------------- the main coroutine ------------------------ *)
LogRecord(level, msg, args) == [level |-> level, msg |-> msg, args |-> args]

\* An exit status that is 0 whenever main does not call exit.
ExitStatusIgnoringExceptions(how) == IF how = "exit" THEN -1 ELSE 0

\* The exit status of the process: exit(-1) where main calls it, 1 when an
\* exception leaves asyncio.run(main()), 0 when main returns.
ExitStatus(how) == IF how = "exit" THEN -1 ELSE IF how = "uncaught" THEN 1 ELSE 0

\* An exception nobody catches leaves asyncio.run and ends the process
\* with a traceback and exit status 1.
Uncaught ==
    /\ main_pc' = "exited"
    /\ exit_code' = ExitStatus("uncaught")

\* A main that logs the missing file and goes on.
PcAfterNotFoundGoesOn == "call_get_addresses"

\* Where main is after the input file was not found: exit(-1) ends it.
PcAfterNotFound == "exited"

\* open(args.filename) and get_coords(json.load(f)).
OpenInput ==
    /\ main_pc = "open_input"
    /\ IF input_file.kind = "missing"
       THEN /\ log' = Append(log, LogRecord("critical", "File not found", <<>>))
            /\ main_pc' = PcAfterNotFound
            /\ exit_code' = ExitStatus("exit")
            /\ UNCHANGED coords
       ELSE IF input_file.kind = "garbage"
            THEN Uncaught /\ UNCHANGED <<coords, log>>
            ELSE /\ coords' = get_coords(input_file.doc)
                 /\ main_pc' = "call_get_addresses"
                 /\ UNCHANGED <<exit_code, log>>
    /\ UNCHANGED <<variant, input_file, buildings, session, task_vars, now,
                   batch_started, cumulative_lookup_time, cumulative_lookup_lock,
                   total_lookup_time, output_file>>

\* started = time.time(); the call of get_addresses: the session is made,
\* one task per coordinate is made, and main waits in gather.
CallGetAddresses ==
    /\ main_pc = "call_get_addresses"
    /\ batch_started' = IF variant = "timing" THEN now ELSE batch_started
    /\ session' = "open"
    /\ task_pc' = [i \in LookupsOf(coords) |-> "created"]
    /\ started' = [i \in LookupsOf(coords) |-> 0]
    /\ elapsed' = [i \in LookupsOf(coords) |-> 0]
    /\ request' = [i \in LookupsOf(coords) |-> NoRequest]
    /\ body' = [i \in LookupsOf(coords) |-> NoBody]
    /\ task_result' = [i \in LookupsOf(coords) |-> NoResult]
    /\ main_pc' = "gather"
    /\ UNCHANGED <<variant, input_file, exit_code, coords, buildings, finished, now,
                   cumulative_lookup_time, cumulative_lookup_lock,
                   total_lookup_time, output_file, log>>

\* A gather that keeps the exceptions of its children as results.
AllFinished(pcs) == \A i \in DOMAIN pcs : pcs[i] \in {"done", "failed"}

\* A gather that is over with the first child that returns.
AnyReturned(pcs) == \E i \in DOMAIN pcs : pcs[i] = "done"

\* gather has its result when every child has returned one.
AllReturned(pcs) == \A i \in DOMAIN pcs : pcs[i] = "done"

\* A gather under a deadline: it also raises while a child still waits for
\* the answer to its GET.
AnyRaisedOrUnanswered(pcs) == \E i \in DOMAIN pcs : pcs[i] \in {"failed", "requesting"}

\* gather has an exception as soon as one child has raised.
AnyRaised(pcs) == \E i \in DOMAIN pcs : pcs[i] = "failed"

\* gather hands back the results once every task has returned; the session
\* is closed, get_addresses returns and main takes the batch time.
GatherReturn ==
    /\ main_pc = "gather"
    /\ AllReturned(task_pc)
    /\ buildings' = GatherResults(task_result, finished)
    /\ session' = "closed"
    /\ total_lookup_time' = IF variant = "timing" THEN now - batch_started
                            ELSE total_lookup_time
    /\ main_pc' = "open_output"
    /\ UNCHANGED <<variant, input_file, exit_code, coords, task_vars, now,
                   batch_started, cumulative_lookup_time, cumulative_lookup_lock,
                   output_file, log>>

\* gather raises the exception of the first task that failed, without
\* waiting for the others; leaving the async with block closes the session.
GatherRaise ==
    /\ main_pc = "gather"
    /\ AnyRaised(task_pc)
    /\ session' = "closed"
    /\ main_pc' = "unwinding"
    /\ UNCHANGED <<variant, input_file, exit_code, coords, buildings, task_vars, now,
                   batch_started, cumulative_lookup_time, cumulative_lookup_lock,
                   total_lookup_time, output_file, log>>

\* The exception leaves main: asyncio.run cancels the tasks that are still
\* pending and the process ends.
RunShutdown ==
    /\ main_pc = "unwinding"
    /\ task_pc' = [i \in Tasks |->
                      IF task_pc[i] \in {"done", "failed"} THEN task_pc[i] ELSE "cancelled"]
    /\ cumulative_lookup_lock' = 0
    /\ Uncaught
    /\ UNCHANGED <<variant, input_file, coords, buildings, session, started, elapsed,
                   request, body, task_result, finished, now, batch_started,
                   cumulative_lookup_time, total_lookup_time, output_file, log>>

\* open(args.output, "w") and the writing of the CSV.  main.py ends here.
OpenOutput(writable) ==
    /\ main_pc = "open_output"
    /\ IF ~writable
       THEN /\ log' = Append(log, LogRecord("critical", "Error creating output file", <<>>))
            /\ main_pc' = "exited"
            /\ exit_code' = ExitStatus("exit")
            /\ output_file' = Refused
       ELSE /\ output_file' = Written(CsvDocument(buildings))
            /\ main_pc' = IF variant = "timing" THEN "stats" ELSE "exited"
            /\ exit_code' = IF variant = "timing" THEN exit_code ELSE ExitStatus("return")
            /\ UNCHANGED log
    /\ UNCHANGED <<variant, input_file, coords, buildings, session, task_vars, now,
                   batch_started, cumulative_lookup_time, cumulative_lookup_lock,
                   total_lookup_time>>

\* The summary of reverse-geocoding.py: the logging.info calls in order.
\* The average is cumulative_lookup_time / len(buildings), here the pair
\* <<numerator, denominator>>; with no building the division raises.
LogStatistics ==
    /\ main_pc = "stats"
    /\ LET first == log \o <<LogRecord("info", "Peak memory usage", <<>>),
                             LogRecord("info", "Time to perform all lookups",
                                       <<total_lookup_time>>)>>
       IN IF Len(buildings) = 0
          THEN /\ log' = first
               /\ Uncaught
          ELSE /\ log' = first \o
                     <<LogRecord("info", "Average lookup time",
                                 <<cumulative_lookup_time, Len(buildings)>>),
                       LogRecord("info", "total coordinates, unique addresses",
                                 <<Len(buildings), Cardinality(UniqueAddresses(buildings))>>)>>
               /\ main_pc' = "exited"
               /\ exit_code' = ExitStatus("return")
    /\ UNCHANGED <<variant, input_file, coords, buildings, session, task_vars, now,
                   batch_started, cumulative_lookup_time, cumulative_lookup_lock,
                   total_lookup_time, output_file>>

\* A wall clock that can also be set back between two readings.
ClockSetAnywhere ==
    /\ variant = "timing"
    /\ main_pc \in {"call_get_addresses", "gather"}
    /\ now' \in (0..MaxTime) \ {now}
    /\ UNCHANGED <<variant, input_file, main_vars, task_vars,
                   cumulative_lookup_time, cumulative_lookup_lock>>

\* The wall clock of reverse-geocoding.py moves on, from its first reading
\* to its last (main.py reads no clock).
Tick ==
    /\ variant = "timing"
    /\ main_pc \in {"call_get_addresses", "gather"}
    /\ now < MaxTime
    /\ now' = now + 1
    /\ UNCHANGED <<variant, input_file, main_vars, task_vars,
                   cumulative_lookup_time, cumulative_lookup_lock>>

Next ==
    \/ OpenInput
    \/ CallGetAddresses
    \/ \E i \in Tasks : StartLookup(i)
    \/ \E i \in Tasks : \E outcome \in Outcomes : ReceiveResponse(i, outcome)
    \/ \E i \in Tasks : AcquireLock(i)
    \/ \E i \in Tasks : UpdateAndReturn(i)
    \/ GatherReturn
    \/ GatherRaise
    \/ RunShutdown
    \/ \E writable \in BOOLEAN : OpenOutput(writable)
    \/ LogStatistics
    \/ Tick

Spec == Init /\ [][Next]_vars

\* The event loop runs every callback that is ready: a lookup that can go
\* on does, and so does the main coroutine.
LookupStep == \E i \in Tasks : StartLookup(i) \/ AcquireLock(i) \/ UpdateAndReturn(i)

MainStep ==
    \/ OpenInput
    \/ CallGetAddresses
    \/ GatherReturn
    \/ GatherRaise
    \/ RunShutdown
    \/ \E writable \in BOOLEAN : OpenOutput(writable)
    \/ LogStatistics

\* The service: every GET that waits for its answer gets one in the end.
Answered == \E i \in Tasks : \E outcome \in Outcomes : ReceiveResponse(i, outcome)

\* The steps of the program and of the service.  The clock is left out: no
\* step waits for it and no guard reads it.
Run ==
    \/ OpenInput
    \/ CallGetAddresses
    \/ \E i \in Tasks : StartLookup(i)
    \/ \E i \in Tasks : \E outcome \in Outcomes : ReceiveResponse(i, outcome)
    \/ \E i \in Tasks : AcquireLock(i)
    \/ \E i \in Tasks : UpdateAndReturn(i)
    \/ GatherReturn
    \/ GatherRaise
    \/ RunShutdown
    \/ \E writable \in BOOLEAN : OpenOutput(writable)
    \/ LogStatistics

\* The program under a fair event loop and a service that answers.
FairSpec ==
    /\ Init
    /\ [][Run]_vars
    /\ WF_vars(LookupStep)
    /\ WF_vars(MainStep)
    /\ WF_vars(Answered)

(* ------------------------------ claims -------------------------------- *)
RECURSIVE SumTo(_, _)
SumTo(f, n) == IF n = 0 THEN 0 ELSE f[n] + SumTo(f, n - 1)

\* get_addresses has returned its list to main.
Returned == main_pc \in {"open_output", "stats"} \/ output_file.state # "unopened"

\* Some lookup of the batch has raised.
SomeLookupFailed == \E i \in Tasks : task_pc[i] = "failed"

\* C1: when all lookups of a batch succeed, get_addresses returns exactly N
\* records, and record i carries the label, longitude and latitude of input
\* i, in whatever order the lookups finished.
C1_OrderPreserved ==
    Returned =>
        /\ Len(buildings) = N
        /\ \A i \in Tasks :
              /\ buildings[i].label = coords[i].label
              /\ buildings[i].longitude = coords[i].longitude
              /\ buildings[i].latitude = coords[i].latitude

\* A batch of two different records has returned, the second lookup having
\* finished before the first.
C1_Witness ==
    /\ Returned
    /\ N = 2
    /\ coords[1] # coords[2]
    /\ finished = <<2, 1>>

Leaves(i, pc) == task_pc[i] = pc /\ task_pc'[i] # pc

\* What is wrong with an answer apart from its status: no response, a body
\* that is not JSON, or JSON without display_name.
Unusable(outcome) ==
    IF outcome.kind = "connection_error" THEN TRUE
    ELSE IF outcome.body.kind # "json" THEN TRUE
    ELSE "display_name" \notin DOMAIN outcome.body.fields

C4_NoLostUpdate ==
    /\ main_pc \in {"open_input", "call_get_addresses"} => cumulative_lookup_time = 0
    /\ (variant = "timing" /\ Returned) =>
          cumulative_lookup_time = 0 + SumTo(elapsed, N)

\* A batch of two lookups has returned, each lookup having measured a
\* positive time.
C4_Witness ==
    /\ variant = "timing"
    /\ Returned
    /\ N = 2
    /\ elapsed[1] > 0
    /\ elapsed[2] > 0

\* C5: when the input file does not exist, no session is ever made, no
\* lookup is started, no request is issued and the output file is never
\* opened; the run ends with the critical log record and exit code -1.
C5_MissingInputStopsAll ==
    input_file.kind = "missing" =>
        /\ session = "none"
        /\ task_pc = <<>>
        /\ request = <<>>
        /\ output_file = Unopened
        /\ main_pc \in {"open_input", "exited"}
        /\ main_pc = "exited" =>
              /\ exit_code = -1
              /\ log = <<LogRecord("critical", "File not found", <<>>)>>

\* The run has ended on a missing input file.
C5_Witness ==
    /\ input_file.kind = "missing"
    /\ main_pc = "exited"

\* C6 as claimed (on a well-formed input of at least one feature): the exit
\* code is -1 exactly when the input file is missing or the output path
\* cannot be opened, and 0 in every other execution.
C6_AsClaimed ==
    (main_pc = "exited" /\ input_file.kind = "doc" /\ N >= 1) =>
        exit_code = (IF output_file = Refused THEN -1 ELSE 0)

\* C6 as amended: the exit code is -1 exactly when the input file is missing
\* or the output path cannot be opened; 0 exactly when main returns (the
\* input was parsed, every lookup succeeded, the output was written and, in
\* reverse-geocoding.py, there is at least one building); and 1 in every
\* other execution that ends.
C6_ExitCodes ==
    main_pc = "exited" =>
        /\ exit_code \in {-1, 0, 1}
        /\ exit_code = -1 <=> (input_file.kind = "missing" \/ output_file = Refused)
        /\ exit_code = 0 <=>
              /\ input_file.kind = "doc"
              /\ \A i \in Tasks : task_pc[i] = "done"
              /\ output_file.state = "written"
              /\ variant = "timing" => N >= 1

\* A run has ended with exit code 1 because a lookup failed.
C6_Witness ==
    /\ main_pc = "exited"
    /\ exit_code = 1
    /\ SomeLookupFailed

\* Reading a CSV field back as a number: the value of its decimal digits.
DigitValue(c) == (CHOOSE k \in 1..10 : DigitChar[k] = c) - 1

RECURSIVE Number(_)
Number(s) == IF Len(s) = 0 THEN 0
             ELSE 10 * Number(SubSeq(s, 1, Len(s) - 1)) + DigitValue(s[Len(s)])

ParseNumber(s) == IF Len(s) > 0 /\ s[1] = "-" THEN 0 - Number(Tail(s)) ELSE Number(s)

\* The place of a column in a header row.
Column(header, name) == CHOOSE k \in 1..Len(header) : header[k] = name

\* C7: in every data row i of the output CSV, the value under Latitude is
\* the latitude of input i and the value under Longitude is its longitude.
C7_CoordinateRoundTrip ==
    output_file.state = "written" =>
        \A i \in 1..N :
            LET header == output_file.rows[1]
                row == output_file.rows[i + 1]
            IN /\ ParseNumber(row[Column(header, "Latitude")]) = coords[i].latitude
               /\ ParseNumber(row[Column(header, "Longitude")]) = coords[i].longitude

\* The run has ended as a success: main returned.
Succeeded == main_pc = "exited" /\ exit_code = 0

\* C8: after a successful run the output CSV is the header row and exactly N
\* data rows in input order (row i holds the label and the two coordinates
\* of input i and the address of building i), and the unique-address count
\* logged by reverse-geocoding.py is the number of distinct addresses.
C8_RowsAndUniqueCount ==
    Succeeded =>
        /\ output_file.state = "written"
        /\ Len(output_file.rows) = N + 1
        /\ output_file.rows[1] = <<"Latitude", "Longitude", "Street Address", "Label">>
        /\ \A i \in 1..N :
              LET row == output_file.rows[i + 1]
              IN /\ row[4] = coords[i].label
                 /\ row[3] = buildings[i].street_address
                 /\ {ParseNumber(row[1]), ParseNumber(row[2])}
                       = {coords[i].longitude, coords[i].latitude}
        /\ variant = "timing" =>
              log[Len(log)] =
                  LogRecord("info", "total coordinates, unique addresses",
                            <<N, Cardinality({ a \in Names :
                                      \E i \in 1..N : buildings[i].street_address = a })>>)

\* A run of reverse-geocoding.py over two features that resolved to the
\* same address has succeeded.
C8_Witness ==
    /\ Succeeded
    /\ variant = "timing"
    /\ N = 2
    /\ buildings[1].street_address = buildings[2].street_address

\* C9: the GET of lookup i carries the coordinates of input i, the record of
\* lookup i gets the display_name of the answer to that GET, and gather puts
\* the record of lookup i at place i: no answer's address ends on another
\* record.
C9_AddressPairing ==
    [][/\ \A i \in Tasks :
             /\ (Leaves(i, "created") /\ StartLookup(i)) =>
                   /\ request'[i].lat = str(coords[i].latitude)
                   /\ request'[i].lon = str(coords[i].longitude)
             /\ Leaves(i, "requesting") =>
                   \A outcome \in Outcomes :
                       /\ (ReceiveResponse(i, outcome) /\ task_pc'[i] = "done") =>
                             task_result'[i].street_address
                                 = outcome.body.fields.display_name
                       /\ (ReceiveResponse(i, outcome) /\ task_pc'[i] = "wait_lock") =>
                             body'[i] = outcome.body
             /\ (Leaves(i, "locked") /\ task_pc'[i] = "done") =>
                   task_result'[i].street_address = body[i].fields.display_name
       /\ buildings' # buildings =>
             /\ Len(buildings') = N
             /\ \A i \in Tasks :
                   buildings'[i].street_address = task_result[i].street_address]_vars

\* A batch of two lookups that were answered with different addresses has
\* returned, the second lookup having finished first.
C9_Witness ==
    /\ Returned
    /\ N = 2
    /\ finished = <<2, 1>>
    /\ buildings[1].street_address # buildings[2].street_address

\* A lookup that has issued its request and has not finished.
InFlight(i) == task_pc[i] \in {"requesting", "wait_lock", "locked"}

\* C10 as claimed: the session is not released while a lookup of the batch
\* is in flight, also after another lookup of the batch has failed.
C10_AsClaimed ==
    (\E i \in Tasks : InFlight(i)) => session = "open"

\* C10 as amended: while a lookup is in flight the session is open, unless a
\* lookup of the batch has failed: get_addresses then leaves its session
\* block on the exception of gather and closes the session over the lookups
\* still in flight.
C10_SessionOpenUnlessFailed ==
    (\E i \in Tasks : InFlight(i)) =>
        \/ session = "open"
        \/ session = "closed" /\ SomeLookupFailed /\ main_pc = "unwinding"

\* One lookup has failed, gather has raised and the session is closed while
\* the other lookup still waits for its answer.
C10_Witness ==
    /\ session = "closed"
    /\ \E i, j \in Tasks : task_pc[i] = "failed" /\ task_pc[j] = "requesting"

\* Lookup i has issued its GET and nothing has come back for it.
Unanswered(i) == task_pc[i] = "requesting"

\* C11 as claimed: while the request of a lookup is unanswered the batch is
\* not over: get_addresses has not returned to main, neither with a result
\* nor with an error.
C11_AsClaimed ==
    (\E i \in Tasks : Unanswered(i)) => main_pc = "gather"

\* C11 as amended: while the request of a lookup is unanswered,
\* get_addresses returns no result, and it is left with an error only when
\* another lookup of the batch has failed; nothing else (no timeout, no
\* cancellation) ends the wait.
C11_HangsUnlessFailed ==
    (\E i \in Tasks : Unanswered(i)) =>
        /\ ~Returned
        /\ buildings = <<>>
        /\ \/ main_pc = "gather"
           \/ main_pc = "unwinding" /\ SomeLookupFailed

\* The second of two lookups has failed and the exception of gather has
\* left get_addresses while the first lookup is still unanswered.
C11_Witness ==
    /\ main_pc = "unwinding"
    /\ task_pc = <<"requesting", "failed">>

\* The lookups that are inside async with cumulative_lookup_lock.
Holders == { i \in Tasks : task_pc[i] = "locked" }

\* C12: at most one lookup holds cumulative_lookup_lock at a time, and the
\* lock names it; cumulative_lookup_time changes only in the update of the
\* lookup that holds the lock; a lookup of reverse-geocoding.py that returns
\* a record has added its elapsed time in that same step, while it held the
\* lock, and takes no step afterwards, so it adds exactly once.
C12_MutualExclusion ==
    [][/\ Cardinality(Holders') <= 1
       /\ \A i \in Holders' : cumulative_lookup_lock' = i
       /\ cumulative_lookup_time' # cumulative_lookup_time =>
             \E i \in Tasks :
                 /\ Holders = {i}
                 /\ cumulative_lookup_lock = i
                 /\ UpdateAndReturn(i)
       /\ \A i \in Tasks :
             /\ (variant = "timing" /\ Leaves(i, "locked") /\ task_pc'[i] = "done") =>
                   /\ cumulative_lookup_lock = i
                   /\ cumulative_lookup_time'
                         = cumulative_lookup_time + (now - started[i])
                   /\ cumulative_lookup_lock' = 0
             /\ (variant = "timing" /\ task_pc'[i] = "done" /\ task_pc[i] # "done") =>
                   Leaves(i, "locked")
             /\ task_pc[i] = "done" => task_pc'[i] = "done"]_vars

\* Two lookups have their answers: one is inside the lock, the other one
\* waits for it.
C12_Witness ==
    /\ variant = "timing"
    /\ task_pc = <<"locked", "wait_lock">>
    /\ cumulative_lookup_lock = 1

\* get_addresses has been called: the session and the lookup tasks exist.
BatchStarted == session # "none"

\* Something has come back for a GET of the batch, or the batch is over.
SomeAnswerSeen ==
    \/ main_pc # "gather"
    \/ \E i \in Tasks : task_pc[i] \notin {"created", "requesting"}

\* C13: a batch has one lookup per record, also for records with the same
\* coordinates; a lookup issues its GET once, for its own record, and never
\* again; a lookup that has not issued its GET can do so whatever the state
\* of the other lookups, and no answer is seen before all N GETs are
\* issued, so all N are issued even if no answer ever comes.
C13_OneRequestPerRecord ==
    [][/\ BatchStarted' => Tasks' = 1..N'
       /\ \A i \in Tasks :
             /\ task_pc[i] = "created" =>
                   /\ request[i] = NoRequest
                   /\ ENABLED StartLookup(i)
             /\ request'[i] # request[i] =>
                   /\ task_pc[i] = "created"
                   /\ StartLookup(i)
                   /\ request'[i] = RequestParams(coords[i])
       /\ (BatchStarted' /\ SomeAnswerSeen') =>
             /\ Cardinality({ i \in Tasks' : request'[i] # NoRequest }) = N'
             /\ \A i \in 1..N' : request'[i] = RequestParams(coords'[i])]_vars

\* A batch of two records with the same coordinates: both GETs are issued
\* and neither is answered.
C13_Witness ==
    /\ N = 2
    /\ coords[1] = coords[2]
    /\ task_pc = <<"requesting", "requesting">>
    /\ request[1] = request[2]
    /\ request[1] # NoRequest

\* Every one of the N lookups has got its answer, has added its time to the
\* counter (reverse-geocoding.py) and has returned its record.
AllLookupsCompleted ==
    /\ Tasks = 1..N
    /\ \A i \in Tasks :
          /\ task_pc[i] = "done"
          /\ task_result[i] # NoResult
          /\ task_result[i].label = coords[i].label
    /\ Len(finished) = N
    /\ cumulative_lookup_lock = 0
    /\ variant = "timing" => cumulative_lookup_time = SumTo(elapsed, N)

\* C14: get_addresses hands its list to main only when every one of the N
\* lookups has completed; total_lookup_time is set in that step and the
\* output file is opened after it, so both only after all lookups have
\* completed; and once the list is returned the lookups stay completed.
C14_ReturnsAfterAllLookups ==
    [][/\ (main_pc = "gather" /\ main_pc' = "open_output") =>
             /\ AllLookupsCompleted
             /\ buildings' = task_result
       /\ total_lookup_time' # total_lookup_time =>
             /\ AllLookupsCompleted
             /\ main_pc = "gather"
             /\ total_lookup_time' = now - batch_started
       /\ output_file' # output_file =>
             /\ AllLookupsCompleted
             /\ main_pc = "open_output"
       /\ Returned' => AllLookupsCompleted']_vars

\* reverse-geocoding.py has written the output for a batch of two lookups
\* that took one tick of the clock.
C14_Witness ==
    /\ main_pc = "stats"
    /\ output_file.state = "written"
    /\ N = 2
    /\ total_lookup_time = 1
    /\ cumulative_lookup_time = 2

\* C15: under a fair event loop and a service that answers every GET, a
\* batch either meets an answer that is not well-formed (a lookup fails) or
\* get_addresses returns its N results with every lookup completed and the
\* lock free; a lookup that waits for the lock gets it unless the batch has
\* failed, and a lock that is held is released.
C15_Terminates ==
    /\ (main_pc = "gather") ~>
          (SomeLookupFailed \/ (Returned /\ AllLookupsCompleted /\ Len(buildings) = N))
    /\ \A i \in 1..MaxN :
          /\ (i \in Tasks /\ task_pc[i] = "wait_lock") ~>
                ((i \in Tasks /\ task_pc[i] = "locked") \/ SomeLookupFailed)
          /\ (cumulative_lookup_lock = i) ~> (cumulative_lookup_lock = 0)

\* reverse-geocoding.py: both lookups of a batch of two have been through
\* the lock, the second one first, and get_addresses has returned.
C15_Witness ==
    /\ variant = "timing"
    /\ main_pc = "open_output"
    /\ N = 2
    /\ finished = <<2, 1>>
    /\ AllLookupsCompleted

\* The run is over for an input with zero features whose output could be
\* written.
EmptyBatchDone ==
    /\ main_pc = "exited"
    /\ input_file.kind = "doc"
    /\ Len(input_file.doc.features) = 0
    /\ output_file.state = "written"

\* C16: a run over an input with zero features is a success: no GET is
\* issued, the CSV holds the header row only, the summary statistics are
\* logged (reverse-geocoding.py) and the exit status is 0.
C16_EmptyInputSucceeds ==
    EmptyBatchDone =>
        /\ Tasks = {}
        /\ output_file.rows = <<CsvHeader>>
        /\ exit_code = 0
        /\ variant = "timing" =>
              /\ Len(log) = 4
              /\ log[3].msg = "Average lookup time"
              /\ log[4].msg = "total coordinates, unique addresses"

\* What a lookup makes of the answer to its GET, whichever program runs it:
\* where it ends and the record it returns.
LookupOutcome(coord, outcome) ==
    IF Unusable(outcome)
    THEN <<"failed", NoResult>>
    ELSE <<"done", BuildingInfo(coord.longitude, coord.latitude,
                                outcome.body.fields.display_name, coord.label)>>

\* C17: in main.py and in reverse-geocoding.py alike, a lookup ends as
\* LookupOutcome says for its record and its answer: main.py ends it with
\* the answer, reverse-geocoding.py either does the same or keeps the parsed
\* body unchanged through the lock and ends the lookup from it after the
\* counter update; and get_addresses ends in both the same way: with the
\* results of the lookups by position when none has failed, with an
\* exception and no list otherwise.
C17_SameResults ==
    [][/\ \A i \in Tasks :
             /\ Leaves(i, "requesting") =>
                   \A outcome \in Outcomes :
                       ReceiveResponse(i, outcome) =>
                           \/ <<task_pc'[i], task_result'[i]>>
                                 = LookupOutcome(coords[i], outcome)
                           \/ /\ variant = "timing"
                              /\ outcome.kind = "http"
                              /\ task_pc'[i] = "wait_lock"
                              /\ body'[i] = outcome.body
             /\ (Leaves(i, "wait_lock") /\ task_pc'[i] = "locked") =>
                   body'[i] = body[i]
             /\ (Leaves(i, "locked") /\ UpdateAndReturn(i)) =>
                   \A outcome \in Outcomes :
                       (outcome.kind = "http" /\ outcome.body = body[i]) =>
                           <<task_pc'[i], task_result'[i]>>
                               = LookupOutcome(coords[i], outcome)
       /\ (main_pc = "gather" /\ main_pc' # "gather") =>
             IF SomeLookupFailed
             THEN main_pc' = "unwinding" /\ buildings' = <<>>
             ELSE main_pc' = "open_output" /\ buildings' = task_result]_vars

\* reverse-geocoding.py: the only lookup of a batch has failed after its
\* counter update, on a body without display_name, where main.py fails
\* with the answer.
C17_Witness ==
    /\ variant = "timing"
    /\ main_pc = "unwinding"
    /\ task_pc = <<"failed">>
    /\ elapsed[1] = 1
    /\ cumulative_lookup_time = 1

\* C18: once reverse-geocoding.py has a batch of N >= 1 lookups returned,
\* every elapsed time a lookup measured lies between 0 and
\* total_lookup_time, so cumulative_lookup_time <= N * total_lookup_time;
\* and the average it logs (numerator over denominator) is at most the
\* total it logs.
C18_AverageAtMostTotal ==
    (variant = "timing" /\ Returned /\ N >= 1) =>
        /\ \A i \in 1..N : 0 <= elapsed[i] /\ elapsed[i] <= total_lookup_time
        /\ cumulative_lookup_time <= N * total_lookup_time
        /\ Succeeded =>
              /\ log[2].msg = "Time to perform all lookups"
              /\ log[3].msg = "Average lookup time"
              /\ log[3].args[2] = N
              /\ log[3].args[1] <= log[3].args[2] * log[2].args[1]

\* reverse-geocoding.py has logged its statistics for two lookups, one
\* that took no tick of the clock and one that took as long as the batch.
C18_Witness ==
    /\ variant = "timing"
    /\ Succeeded
    /\ elapsed = <<0, 1>>
    /\ total_lookup_time = 1
    /\ log[3].args = <<1, 2>>

====
